---- MODULE Spec2Model ----
(***************************************************************************)
(* A model of parastell/magnet_coils.py: the MagnetSet object, its         *)
(* validated property setters, the filament file parser and the filament   *)
(* selection / canonicalization pipeline run by build_magnet_coils.        *)
(*                                                                         *)
(* Numbers.  Lengths are integers (cm).  Angles are integers in            *)
(* micro-radians.  Square roots and centres of mass are rounded down to    *)
(* whole cm.  np.arctan2 is computed by a CORDIC iteration on the reduced  *)
(* (gcd-free) argument pair, so it is exactly scale invariant.             *)
(***************************************************************************)
EXTENDS Integers, Sequences, FiniteSets, TLC

VARIABLES
    pc,                        \* position in the object's life / the build
    attrs,                     \* names of the instance attributes that are set
    cross_section,             \* self._cross_section
    shape,                     \* self.shape
    shape_str,                 \* self.shape_str
    mag_len,                   \* self.mag_len
    toroidal_extent,           \* self._toroidal_extent (micro-radians)
    sample_mod,                \* self.sample_mod
    coils_file,                \* the lines of the file named by self.coils_file
    filaments,                 \* self.filaments
    average_radial_distance,   \* self.average_radial_distance (cm)
    filtered_filaments,        \* self.filtered_filaments
    magnet_coils,              \* self.magnet_coils, each with what create_magnet
                               \* computed for it and its entry of volume_ids
    call,                      \* the last operation invoked, with its argument
    raised,                    \* the exception the last operation raised
    warned                     \* whether the last operation logged a warning

vars == <<pc, attrs, cross_section, shape, shape_str, mag_len, toroidal_extent,
          sample_mod, coils_file, filaments, average_radial_distance,
          filtered_filaments, magnet_coils, call, raised, warned>>

(***************************************************************************)
(* Bounds of the model and constants of the program.                       *)
(***************************************************************************)
MaxDims == 3          \* most dimension values in a cross_section list
MaxLines == 6         \* most data lines of a file of arbitrary records
MaxSampleMod == 2     \* largest sample_mod passed as a keyword argument
MaxPts == 4           \* most points of a single free-form filament
MaxFils == 2          \* most filaments of a file built from the catalogue

start_line == 3       \* default number of header lines
scale == 100          \* m2cm
ExtentLimit == 360    \* the number the setter compares the extent with

Micro == 1000 * 1000
Pi == 3141593         \* np.pi in micro-radians
TwoPi == 2 * Pi
HalfPi == Pi \div 2

None == "none"

Range(s) == {s[i] : i \in 1..Len(s)}

\* the numbers of a finite set, in increasing order
Ascending(S) ==
    [r \in 1..Cardinality(S) |->
        CHOOSE i \in S : Cardinality({j \in S : j < i}) = r - 1]

RECURSIVE SeqsUpTo(_, _)
\* all sequences over S of length at most n
SeqsUpTo(S, n) ==
    IF n = 0 THEN {<<>>}
    ELSE LET shorter == SeqsUpTo(S, n - 1) IN
         shorter \cup {Append(s, x) : s \in {t \in shorter : Len(t) = n - 1}, x \in S}

(***************************************************************************)
(* Cross-section                                                           *)
(***************************************************************************)
MinOf(a, b) == IF a < b THEN a ELSE b

\* Python's max(width, thickness)
Max(a, b) == IF b > a THEN b ELSE a

CircleFormatMissing(cs) == Len(cs) = 1

CircleFormatLong(cs) == Len(cs) > 2

RectangleLoose(cs) == Len(cs) < 3

RectangleFormatBad(cs) == Len(cs) # 3

\* _extract_cross_section, as a function of self._cross_section: the
\* exception raised, whether a warning was logged, and the three derived
\* attributes it assigns when it returns normally.
ExtractCrossSection(cs) ==
    IF Len(cs) = 0
    THEN [raised |-> "IndexError", warned |-> FALSE]
    ELSE LET shp == cs[1] IN
         IF shp = "circle"
         THEN IF CircleFormatMissing(cs)
              THEN [raised |-> "ValueError", warned |-> FALSE]
              ELSE [raised |-> None, warned |-> CircleFormatLong(cs),
                    shape |-> shp,
                    shape_str |-> <<shp, "radius", cs[2]>>,
                    mag_len |-> cs[2]]
         ELSE IF shp = "rectangle"
         THEN IF RectangleFormatBad(cs)
              THEN [raised |-> "ValueError", warned |-> FALSE]
              ELSE LET width == cs[2]
                       thickness == cs[3]
                   IN [raised |-> None, warned |-> FALSE,
                       shape |-> shp,
                       shape_str |-> <<shp, "width", thickness, "height", width>>,
                       mag_len |-> Max(width, thickness)]
         ELSE [raised |-> "ValueError", warned |-> FALSE]

(***************************************************************************)
(* Toroidal extent                                                         *)
(***************************************************************************)
\* np.deg2rad(angle) = angle * (pi/180), in micro-radians
\* (pi/180 = 17453.2925 micro-radians)
Deg2Rad(angle) == angle * 17453 + (angle * 2925) \div 10000

\* the test of the toroidal_extent setter, on the stored (radian) value
ExtentTooLarge(te) == te > ExtentLimit * Micro

(***************************************************************************)
(* The object before __init__ has run: no attribute is set.                *)
(***************************************************************************)
NoCall == [op |-> "none", angle |-> 0, shape |-> <<>>]

Init ==
    /\ pc = "new"
    /\ attrs = {}
    /\ cross_section = <<>>
    /\ shape = None
    /\ shape_str = <<>>
    /\ mag_len = 0
    /\ toroidal_extent = 0
    /\ sample_mod = 1
    /\ coils_file = <<>>
    /\ filaments = <<>>
    /\ average_radial_distance = 0
    /\ filtered_filaments = <<>>
    /\ magnet_coils = <<>>
    /\ call = NoCall
    /\ raised = None
    /\ warned = FALSE

build_vars == <<filaments, average_radial_distance, filtered_filaments,
                magnet_coils>>

\* the assignments of the cross_section setter: self._cross_section is
\* assigned first, the derived attributes only when extraction returns
AssignCrossSection(cs) ==
    LET r == ExtractCrossSection(cs) IN
    /\ cross_section' = cs
    /\ IF r.raised = None
       THEN /\ shape' = r.shape
            /\ shape_str' = r.shape_str
            /\ mag_len' = r.mag_len
       ELSE UNCHANGED <<shape, shape_str, mag_len>>

CrossSectionAttrs(cs) ==
    IF ExtractCrossSection(cs).raised = None
    THEN {"_cross_section", "shape", "shape_str", "mag_len"}
    ELSE {"_cross_section"}

\* MagnetSet.__init__(coils_file, cross_section, toroidal_extent,
\*                    sample_mod=kw): the cross_section setter runs first, then
\* the toroidal_extent setter, then the defaults and the keyword arguments.
\* An exception leaves pc = "failed": the caller never gets the object.
New(file, cs, angle, kw) ==
    LET r == ExtractCrossSection(cs)
        te == Deg2Rad(angle)
    IN
    /\ pc = "new"
    /\ call' = [op |-> "__init__", angle |-> angle, shape |-> cs]
    /\ coils_file' = file
    /\ AssignCrossSection(cs)
    /\ UNCHANGED build_vars
    /\ IF r.raised # None
       THEN /\ raised' = r.raised
            /\ warned' = FALSE
            /\ pc' = "failed"
            /\ attrs' = {"coils_file"} \cup CrossSectionAttrs(cs)
            /\ UNCHANGED <<toroidal_extent, sample_mod>>
       ELSE /\ toroidal_extent' = te
            /\ warned' = r.warned
            /\ IF ExtentTooLarge(te)
               THEN /\ raised' = "ValueError"
                    /\ pc' = "failed"
                    /\ attrs' = {"coils_file", "_toroidal_extent"}
                                    \cup CrossSectionAttrs(cs)
                    /\ UNCHANGED sample_mod
               ELSE /\ raised' = None
                    /\ pc' = "ready"
                    /\ attrs' = {"coils_file", "_toroidal_extent", "start_line",
                                 "sample_mod", "scale", "mat_tag"}
                                    \cup CrossSectionAttrs(cs)
                    /\ sample_mod' = kw

\* magnet_set.cross_section = cs
SetCrossSection(cs) ==
    LET r == ExtractCrossSection(cs) IN
    /\ pc = "ready"
    /\ call' = [op |-> "cross_section", angle |-> 0, shape |-> cs]
    /\ AssignCrossSection(cs)
    /\ raised' = r.raised
    /\ warned' = r.warned
    /\ attrs' = attrs \cup CrossSectionAttrs(cs)
    /\ UNCHANGED <<pc, toroidal_extent, sample_mod, coils_file>>
    /\ UNCHANGED build_vars

\* magnet_set.toroidal_extent = angle: the converted value is stored before
\* it is tested
SetToroidalExtent(angle) ==
    /\ pc = "ready"
    /\ call' = [op |-> "toroidal_extent", angle |-> angle, shape |-> <<>>]
    /\ toroidal_extent' = Deg2Rad(angle)
    /\ raised' = IF ExtentTooLarge(Deg2Rad(angle)) THEN "ValueError" ELSE None
    /\ warned' = FALSE
    /\ UNCHANGED <<pc, attrs, cross_section, shape, shape_str, mag_len,
                   sample_mod, coils_file>>
    /\ UNCHANGED build_vars

(***************************************************************************)
(* Inputs of the configuration specification                               *)
(***************************************************************************)
Tags == {"circle", "rectangle", "square"}

DimValues == {2, 5}

CrossSections ==
    {<<>>} \cup {<<t>> \o d : t \in Tags, d \in SeqsUpTo(DimValues, MaxDims)}

Angles == {0 - 90, 0, 180, 360, 370, 20626, 20627}

NoFile == <<>>

ConfigNext ==
    \/ /\ pc = "new"
       /\ \E cs \in CrossSections, a \in Angles : New(NoFile, cs, a, 1)
    \/ \E cs \in CrossSections : SetCrossSection(cs)
    \/ \E a \in Angles : SetToroidalExtent(a)

SpecConfig == Init /\ [][ConfigNext]_vars

(***************************************************************************)
(* Arithmetic of the geometry: integer square root, np.arctan2             *)
(***************************************************************************)
Abs(a) == IF a < 0 THEN 0 - a ELSE a

RECURSIVE Gcd(_, _)
Gcd(a, b) == IF b = 0 THEN a ELSE Gcd(b, a % b)

RECURSIVE SqrtIter(_, _, _)
\* lo*lo <= n < hi*hi
SqrtIter(n, lo, hi) ==
    IF hi - lo <= 1 THEN lo
    ELSE LET mid == (lo + hi) \div 2 IN
         IF mid * mid <= n THEN SqrtIter(n, mid, hi) ELSE SqrtIter(n, lo, mid)

\* np.sqrt(n) and n**0.5, rounded down to an integer
Sqrt(n) == SqrtIter(n, 0, 46340)

\* arctan(2^-i) in micro-radians, i = 0..14
AtanTable == <<785398, 463648, 244979, 124355, 62419, 31240, 15624, 7812,
               3906, 1953, 977, 488, 244, 122, 61>>

RECURSIVE Cordic(_, _, _, _)
\* rotate (x, y) onto the x axis, accumulating the angle in z
Cordic(x, y, z, i) ==
    IF i >= Len(AtanTable) \/ y = 0 THEN z
    ELSE IF y > 0
         THEN Cordic(x + y \div 2^i, y - x \div 2^i, z + AtanTable[i + 1], i + 1)
         ELSE Cordic(x - y \div 2^i, y + x \div 2^i, z - AtanTable[i + 1], i + 1)

\* arctan(y/x) for x > 0, y > 0, in micro-radians
AtanQ1(y, x) ==
    LET g == Gcd(x, y) IN Cordic((x \div g) * 2^14, (y \div g) * 2^14, 0, 0)

\* np.arctan2(y, x), in micro-radians, in (-pi, pi]
Arctan2(y, x) ==
    IF y = 0 THEN (IF x >= 0 THEN 0 ELSE Pi)
    ELSE IF x = 0 THEN (IF y > 0 THEN HalfPi ELSE 0 - HalfPi)
    ELSE LET a == AtanQ1(Abs(y), Abs(x)) IN
         IF x > 0 THEN (IF y > 0 THEN a ELSE 0 - a)
         ELSE (IF y > 0 THEN Pi - a ELSE a - Pi)

\* (phi + 2*np.pi) % (2*np.pi)
Positive(phi) == (phi + TwoPi) % TwoPi

RECURSIVE SumSeq(_)
SumSeq(s) == IF s = <<>> THEN 0 ELSE s[1] + SumSeq(Tail(s))

(***************************************************************************)
(* _extract_filaments                                                      *)
(***************************************************************************)
\* A line of the file after split(): a data record 'x y z current' or a line
\* whose first token is 'end'.  Header lines are skipped unread.
DataLine(x, y, z, s) == [tok |-> "num", x |-> x, y |-> y, z |-> z, s |-> s]

EndLine == [tok |-> "end", x |-> 0, y |-> 0, z |-> 0, s |-> 0]

HeaderLine == [tok |-> "hdr", x |-> 0, y |-> 0, z |-> 0, s |-> 0]

Header == [i \in 1..start_line |-> HeaderLine]

\* file.readlines()[self.start_line:]
DataOf(file) == SubSeq(file, start_line + 1, Len(file))

\* the test that samples a record of the current filament
Sampled(sample_counter, mod) == sample_counter % mod = 0

RECURSIVE ParseLines(_, _, _, _, _, _)
\* the loop over the data lines, from line i on
ParseLines(data, i, coords, fils, sample_counter, mod) ==
    IF i > Len(data) THEN fils
    ELSE LET columns == data[i] IN
         IF columns.tok = "end" THEN fils
         ELSE LET pt == <<columns.x * scale, columns.y * scale, columns.z * scale>> IN
              IF columns.s # 0
              THEN ParseLines(data, i + 1,
                              IF Sampled(sample_counter, mod)
                              THEN Append(coords, pt) ELSE coords,
                              fils, sample_counter + 1, mod)
              ELSE ParseLines(data, i + 1, <<>>,
                              Append(fils, Append(coords, pt)), 0, mod)

\* every filament has the same number of points: np.array(filaments) is a
\* numeric array of shape (n, m, 3)
Homogeneous(fils) ==
    \A i, j \in 1..Len(fils) : Len(fils[i]) = Len(fils[j])

\* _extract_filaments.  np.array of filaments of unequal length raises
\* ValueError (numpy >= 1.24) or gives a one-dimensional array of lists
\* (older numpy): both outcomes are kept.
ExtractFilaments ==
    LET fils == ParseLines(DataOf(coils_file), 1, <<>>, <<>>, 0, sample_mod) IN
    /\ pc = "ready"
    /\ call' = [op |-> "_extract_filaments", angle |-> 0, shape |-> <<>>]
    /\ warned' = FALSE
    /\ \/ /\ raised' = None
          /\ filaments' = fils
          /\ attrs' = attrs \cup {"filaments"}
          /\ pc' = "extracted"
       \/ /\ ~Homogeneous(fils)
          /\ raised' = "ValueError"
          /\ pc' = "aborted"
          /\ UNCHANGED <<filaments, attrs>>
    /\ UNCHANGED <<cross_section, shape, shape_str, mag_len, toroidal_extent,
                   sample_mod, coils_file, average_radial_distance,
                   filtered_filaments, magnet_coils>>

(***************************************************************************)
(* _set_average_radial_distance                                            *)
(***************************************************************************)
\* the radial distance of a point, (x**2 + y**2)**0.5
Radius(point) == Sqrt(point[1] * point[1] + point[2] * point[2])

\* all points of all filaments, in order
RECURSIVE Flatten(_)
Flatten(fils) == IF fils = <<>> THEN <<>> ELSE fils[1] \o Flatten(Tail(fils))

\* np.average(np.sqrt(x**2 + y**2)) over every point of every filament
AverageRadialDistance(fils) ==
    LET pts == Flatten(fils) IN
    SumSeq([i \in 1..Len(pts) |-> Radius(pts[i])]) \div Len(pts)

\* self.filaments[:, :, 0] needs a three-dimensional array
SetAverageRadialDistance ==
    /\ pc = "extracted"
    /\ call' = [op |-> "_set_average_radial_distance", angle |-> 0, shape |-> <<>>]
    /\ warned' = FALSE
    /\ IF Len(filaments) >= 1 /\ Homogeneous(filaments)
       THEN /\ average_radial_distance' = AverageRadialDistance(filaments)
            /\ raised' = None
            /\ attrs' = attrs \cup {"average_radial_distance"}
            /\ pc' = "averaged"
       ELSE /\ raised' = "IndexError"
            /\ pc' = "aborted"
            /\ UNCHANGED <<average_radial_distance, attrs>>
    /\ UNCHANGED <<cross_section, shape, shape_str, mag_len, toroidal_extent,
                   sample_mod, coils_file, filaments, filtered_filaments,
                   magnet_coils>>

(***************************************************************************)
(* _set_filtered_filaments                                                 *)
(***************************************************************************)
\* np.average(fil, axis=0): the centre of mass of a filament
Com(fil) ==
    LET m == Len(fil) IN
    <<SumSeq([i \in 1..m |-> fil[i][1]]) \div m,
      SumSeq([i \in 1..m |-> fil[i][2]]) \div m,
      SumSeq([i \in 1..m |-> fil[i][3]]) \div m>>

\* tol = 2*np.arctan2(self.mag_len, self.average_radial_distance)
Tol(len, r_avg) == 2 * Arctan2(len, r_avg)

\* the toroidal angles of the points of a filament, made positive
PhiPts(fil) == [i \in 1..Len(fil) |-> Positive(Arctan2(fil[i][2], fil[i][1]))]

SeqMin(s) == CHOOSE a \in Range(s) : \A b \in Range(s) : a <= b

SeqMax(s) == CHOOSE a \in Range(s) : \A b \in Range(s) : a >= b

OverlapsBoth(fil, min_rad, max_rad) ==
    LET min_phi == SeqMin(PhiPts(fil))
        max_phi == SeqMax(PhiPts(fil))
    IN  /\ (min_phi >= min_rad \/ min_phi <= max_rad)
        /\ (max_phi >= min_rad \/ max_phi <= max_rad)

\* the test that keeps a filament: its least or its greatest toroidal angle
\* is within the bounds
Overlaps(fil, min_rad, max_rad) ==
    LET min_phi == SeqMin(PhiPts(fil))
        max_phi == SeqMax(PhiPts(fil))
    IN  \/ (min_phi >= min_rad \/ min_phi <= max_rad)
        \/ (max_phi >= min_rad \/ max_phi <= max_rad)

\* sorted(zip(keys, items)) compares two filaments (arrays) when their keys
\* are equal, which raises ValueError
HasTie(keys) ==
    \E i, j \in 1..Len(keys) : i < j /\ keys[i] = keys[j]

\* [x for _, x in sorted(zip(keys, items))], for keys without a tie
SortedBy(keys, items) ==
    LET n == Len(keys)
        rank(i) == Cardinality({j \in 1..n : keys[j] < keys[i]
                                             \/ (keys[j] = keys[i] /\ j < i)}) + 1
    IN  [r \in 1..n |-> items[CHOOSE i \in 1..n : rank(i) = r]]

\* point[2]/next_point[2] < 0 in floating point: a division by zero gives
\* -inf for a negative numerator, +inf for a positive one and nan for zero
Crossing(point, next_point) ==
    IF next_point[3] = 0 THEN point[3] < 0
    ELSE point[3] * next_point[3] < 0

RECURSIVE StartScan(_, _, _, _)
\* the scan for the start point from position index on; min_z_index = 0
\* stands for None
StartScan(filament, index, min_z_index, min_z_radius) ==
    IF index > Len(filament) - 1 THEN min_z_index
    ELSE IF /\ Crossing(filament[index], filament[index + 1])
            /\ (min_z_index = 0 \/ min_z_radius < Radius(filament[index]))
         THEN StartScan(filament, index + 1, index, Radius(filament[index]))
         ELSE StartScan(filament, index + 1, min_z_index, min_z_radius)

MinZIndex(filament) == StartScan(filament, 1, 0, 0)

\* np.concatenate([filament[min_z_index:], filament[0:min_z_index]])
Rotate(filament, k) ==
    SubSeq(filament, k, Len(filament)) \o SubSeq(filament, 1, k - 1)

\* np.flip(reordered_filament, axis=0)
Flip(s) == [i \in 1..Len(s) |-> s[Len(s) + 1 - i]]

\* lexicographic order of two points (rows)
RowLess(p, q) ==
    \/ p[1] < q[1]
    \/ p[1] = q[1] /\ p[2] < q[2]
    \/ p[1] = q[1] /\ p[2] = q[2] /\ p[3] < q[3]

\* idx of np.unique(s, return_index=True, axis=0): the first position of
\* every distinct row
UniqueIdx(s) == {i \in 1..Len(s) : \A j \in 1..(i - 1) : s[j] # s[i]}

\* s[idx] without the np.sort: the rows in the sorted order of np.unique
DedupRowOrder(s) ==
    LET idx == UniqueIdx(s)
        n == Cardinality(idx)
        nth(r) == CHOOSE i \in idx :
                      Cardinality({j \in idx : RowLess(s[j], s[i])}) = r - 1
    IN  [r \in 1..n |-> s[nth(r)]]

\* reordered_filament[np.sort(idx)]
Dedup(s) ==
    LET idx == Ascending(UniqueIdx(s)) IN [r \in 1..Len(idx) |-> s[idx[r]]]

\* np.concatenate([reordered_filament, [reordered_filament[0]]])
Close(s) == Append(s, s[1])

\* the direction test, on the filament as it was before the rotation
ZDecreases(filament, k) == filament[k][3] > filament[k + 1][3]

\* One pass of the loop that changes the start point of a filament, up to
\* the assignment into the array filtered_filaments, whose rows have
\* Len(filament) points.
Reorder(filament) ==
    LET k == MinZIndex(filament) IN
    IF k = 0
    THEN [raised |-> IF Len(filament) < 3 THEN "IndexError" ELSE "TypeError"]
    ELSE LET rotated == Rotate(filament, k)
             directed == IF ZDecreases(filament, k) THEN Flip(rotated) ELSE rotated
             closed == Close(Dedup(directed))
         IN  IF Len(closed) # Len(filament)
             THEN [raised |-> "ValueError"]
             ELSE [raised |-> None, fil |-> closed]

\* the toroidal angle of a centre of mass for the first sort
PhiFirst(com) == Positive(Arctan2(com[2], com[1]))

\* the toroidal angle of a centre of mass for the second sort
PhiSecond(com) == Arctan2(com[2], com[1])

\* the filaments kept by the toroidal-extent test, in file order
ReducedFils(fils, len, r_avg, extent) ==
    LET tol == Tol(len, r_avg)
        min_rad == TwoPi - tol
        max_rad == extent + tol
        keep(fil) == Overlaps(fil, min_rad, max_rad)
    IN  SelectSeq(fils, keep)

\* _set_filtered_filaments as a function of the attributes it reads: the
\* exception raised, or the value assigned to self.filtered_filaments
FilteredFilaments(fils, len, r_avg, extent) ==
    LET reduced_fils == ReducedFils(fils, len, r_avg, extent)
        n == Len(reduced_fils)
        phi_arr == [i \in 1..n |-> PhiFirst(Com(reduced_fils[i]))]
        sorted_fils == SortedBy(phi_arr, reduced_fils)
        reordered == [i \in 1..n |-> Reorder(sorted_fils[i])]
        failing == {i \in 1..n : reordered[i].raised # None}
        canonical == [i \in 1..n |-> reordered[i].fil]
        phi_arr2 == [i \in 1..n |-> PhiSecond(Com(canonical[i]))]
    IN  IF n = 0 THEN [raised |-> "IndexError"]
        ELSE IF HasTie(phi_arr) THEN [raised |-> "ValueError"]
        ELSE IF failing # {}
             THEN [raised |-> reordered[CHOOSE i \in failing :
                                            \A j \in failing : i <= j].raised]
        ELSE IF HasTie(phi_arr2) THEN [raised |-> "ValueError"]
        ELSE [raised |-> None, fils |-> SortedBy(phi_arr2, canonical)]

SetFilteredFilaments ==
    LET r == FilteredFilaments(filaments, mag_len, average_radial_distance,
                               toroidal_extent) IN
    /\ pc = "averaged"
    /\ call' = [op |-> "_set_filtered_filaments", angle |-> 0, shape |-> <<>>]
    /\ warned' = FALSE
    /\ raised' = r.raised
    /\ IF r.raised = None
       THEN /\ filtered_filaments' = r.fils
            /\ attrs' = attrs \cup {"filtered_filaments"}
            /\ pc' = "filtered"
       ELSE /\ pc' = "aborted"
            /\ UNCHANGED <<filtered_filaments, attrs>>
    /\ UNCHANGED <<cross_section, shape, shape_str, mag_len, toroidal_extent,
                   sample_mod, coils_file, filaments, average_radial_distance,
                   magnet_coils>>

(***************************************************************************)
(* build_magnet_coils after the three filament stages: one MagnetCoil per  *)
(* filtered filament, and MagnetCoil.create_magnet up to the tangent at    *)
(* the start of the sweep path                                             *)
(***************************************************************************)
\* the ids of the vertices created for the points of the filament, in order
\* (numbered from 1 within the coil), and then path[0] once more
Path(filament) == [i \in 1..Len(filament) |-> i] \o <<1>>

\* cubit.vertex(id).coordinates(): the vertex with the i-th id was created
\* at the i-th point of the filament
Coordinates(filament, id) == filament[id]

\* next_pt, the coordinates of the vertex path[1]
NextPt(filament) == Coordinates(filament, Path(filament)[2])

\* last_pt, the coordinates of the vertex path[-2]
LastPt(filament) ==
    Coordinates(filament, Path(filament)[Len(Path(filament)) - 1])

\* np.subtract(next_pt, last_pt), the vector that is normalized into tang
Subtract(a, b) == <<a[1] - b[1], a[2] - b[2], a[3] - b[3]>>

\* MagnetCoil(filament, shape, shape_str) after create_magnet; the i-th
\* volume created gets the i-th volume id
CreateMagnet(filament, shp, shp_str, i) ==
    [filament |-> filament, shape |-> shp, shape_str |-> shp_str,
     path |-> Path(filament),
     next_pt |-> NextPt(filament), last_pt |-> LastPt(filament),
     tang_dir |-> Subtract(NextPt(filament), LastPt(filament)),
     volume_id |-> i]

CreateMagnets ==
    /\ pc = "filtered"
    /\ call' = [op |-> "create_magnet", angle |-> 0, shape |-> <<>>]
    /\ warned' = FALSE
    /\ raised' = None
    /\ magnet_coils' = [i \in 1..Len(filtered_filaments) |->
                           CreateMagnet(filtered_filaments[i], shape,
                                        shape_str, i)]
    /\ attrs' = attrs \cup {"magnet_coils", "volume_ids"}
    /\ pc' = "built"
    /\ UNCHANGED <<cross_section, shape, shape_str, mag_len, toroidal_extent,
                   sample_mod, coils_file, filaments, average_radial_distance,
                   filtered_filaments>>

(***************************************************************************)
(* Inputs of the build specification: files of one free-form filament and  *)
(* files of filaments from a catalogue of closed loops                     *)
(***************************************************************************)
\* the lines of one filament: current 1 on every point but the last
FilamentLines(pts) ==
    [i \in 1..Len(pts) |->
        DataLine(pts[i][1], pts[i][2], pts[i][3], IF i = Len(pts) THEN 0 ELSE 1)]

RECURSIVE FileLines(_)
FileLines(fils) ==
    IF fils = <<>> THEN <<>> ELSE FilamentLines(fils[1]) \o FileLines(Tail(fils))

FileOf(fils) == Header \o FileLines(fils) \o <<EndLine>>

\* points of the free-form filaments (file units: m)
FreePoints == {<<10, 0, 0 - 1>>, <<10, 0, 1>>, <<8, 0, 1>>, <<8, 0, 0 - 1>>,
               <<10, 0, 0>>}

FreeFilaments == {f \in SeqsUpTo(FreePoints, MaxPts) : Len(f) >= 2}

\* closed loops around the torus cross-section at three toroidal positions
LoopAt(xo, yo, xi, yi) ==
    <<<<xo, yo, 0 - 1>>, <<xo, yo, 1>>, <<xi, yi, 1>>, <<xi, yi, 0 - 1>>,
      <<xo, yo, 0 - 1>>>>

\* a filament turned by a quarter turn about the z axis
Quarter(fil) == [i \in 1..Len(fil) |-> <<0 - fil[i][2], fil[i][1], fil[i][3]>>]

\* a loop at toroidal angle 0, one that straddles the lower bound of the
\* toroidal extent, one at about 37 degrees, the first loop run the other way
\* round, and the first loop at 90 and at 180 degrees
Catalogue ==
    {LoopAt(10, 0, 8, 0), LoopAt(10, 0 - 1, 8, 0 - 3), LoopAt(8, 6, 4, 3),
     Flip(LoopAt(10, 0, 8, 0)), Quarter(LoopAt(10, 0, 8, 0)),
     Quarter(Quarter(LoopAt(10, 0, 8, 0)))}

CatalogueSets == {s \in SeqsUpTo(Catalogue, MaxFils) : Len(s) >= 1}

BuildFiles ==
    {FileOf(<<f>>) : f \in FreeFilaments} \cup {FileOf(s) : s \in CatalogueSets}

BuildShapes == {<<"circle", 100>>, <<"rectangle", 200, 100>>}

BuildAngles == {90, 360}

Next ==
    \/ /\ pc = "new"
       /\ \E file \in BuildFiles, cs \in BuildShapes, a \in BuildAngles :
             New(file, cs, a, 1)
    \/ ExtractFilaments
    \/ SetAverageRadialDistance
    \/ SetFilteredFilaments
    \/ CreateMagnets

Spec == Init /\ [][Next]_vars

(***************************************************************************)
(* Claims on the configuration setters (properties of SpecConfig)         *)
(***************************************************************************)
\* the last operation ran the toroidal_extent setter
ExtentSetterRan ==
    \/ call.op = "toroidal_extent"
    \/ call.op = "__init__" /\ "_toroidal_extent" \in attrs

\* the last operation ran the cross_section setter, and it raised
CrossSectionSetterRan == call.op \in {"cross_section", "__init__"}

CrossSectionRaised ==
    IF call.op = "cross_section" THEN raised # None
    ELSE "_toroidal_extent" \notin attrs

\* te (micro-radians) is angle (degrees) times pi/180, up to rounding
InRadians(te, angle) ==
    LET d == te * 180 - angle * Pi IN d > 0 - 1000 /\ d < 1000

\* C1: an extent in degrees outside (0, 360] makes the constructor or the
\* toroidal_extent setter raise; an extent inside (0, 360] is accepted and
\* stored in radians.
C1_ExtentOutsideRangeRaises ==
    ExtentSetterRan =>
        IF call.angle > 0 /\ call.angle <= 360
        THEN raised = None /\ InRadians(toroidal_extent, call.angle)
        ELSE raised # None

\* the list is one the claim says must be rejected; a list with no entry has
\* no shape tag, so its tag is neither 'circle' nor 'rectangle'
Malformed(cs) ==
    IF Len(cs) = 0 THEN TRUE
    ELSE \/ cs[1] \notin {"circle", "rectangle"}
         \/ cs[1] = "circle" /\ Len(cs) < 2
         \/ cs[1] = "rectangle" /\ Len(cs) # 3

LongCircle(cs) ==
    IF Len(cs) = 0 THEN FALSE ELSE cs[1] = "circle" /\ Len(cs) > 2

\* C2: assigning cross_section raises exactly for an unknown shape tag, a
\* circle without radius or a rectangle whose list length is not 3; a circle
\* with extra values is accepted with a warning, its first value the radius.
C2_CrossSectionRejectedExactlyWhenMalformed ==
    CrossSectionSetterRan =>
        /\ CrossSectionRaised <=> Malformed(call.shape)
        /\ LongCircle(call.shape) =>
              /\ ~CrossSectionRaised
              /\ call.op = "cross_section" => warned
              /\ mag_len = call.shape[2]
              /\ shape = "circle"

C2_Witness ==
    /\ call.op = "cross_section"
    /\ call.shape = <<"circle", 5, 2>>
    /\ raised = None
    /\ warned
    /\ mag_len = 5

\* C3: for an accepted cross-section mag_len is the radius of a circle and
\* the larger of width and thickness of a rectangle.
C3_MagLenIsCharacteristicLength ==
    (CrossSectionSetterRan /\ ~CrossSectionRaised) =>
        LET cs == call.shape IN
        IF cs[1] = "circle"
        THEN mag_len = cs[2]
        ELSE /\ mag_len \in {cs[2], cs[3]}
             /\ mag_len >= cs[2]
             /\ mag_len >= cs[3]

C3_Witness ==
    /\ call.op = "cross_section"
    /\ call.shape = <<"rectangle", 2, 5>>
    /\ raised = None
    /\ mag_len = 5

(***************************************************************************)
(* Inputs of the parser specification: files of arbitrary records, the     *)
(* point of line i being (i, i, i)                                         *)
(***************************************************************************)
LineKinds == {"current", "zero", "end"}

LineOf(i, kind) ==
    IF kind = "end" THEN EndLine
    ELSE DataLine(i, i, i, IF kind = "zero" THEN 0 ELSE 1)

ParseFiles ==
    {Header \o [i \in 1..Len(p) |-> LineOf(i, p[i])] :
        p \in SeqsUpTo(LineKinds, MaxLines)}

ParseNext ==
    \/ /\ pc = "new"
       /\ \E file \in ParseFiles, kw \in 1..MaxSampleMod :
             New(file, <<"circle", 100>>, 90, kw)
    \/ ExtractFilaments

SpecParse == Init /\ [][ParseNext]_vars

(***************************************************************************)
(* Claims on the build (properties of Spec)                                *)
(***************************************************************************)
Output == Range(filtered_filaments)

Input == Range(filaments)

\* the points of a filament but its last
Body(g) == SubSeq(g, 1, Len(g) - 1)

FirstPos(s, p) == CHOOSE i \in 1..Len(s) : s[i] = p /\ \A j \in 1..(i - 1) : s[j] # p

\* b lists every point of s once, in the order of first appearance in s
FirstSeenOrder(b, s) ==
    /\ Range(b) = Range(s)
    /\ \A i, j \in 1..Len(b) : i < j => FirstPos(s, b[i]) < FirstPos(s, b[j])

\* C4: every output filament is closed, no point but the closing one repeats
\* an earlier point, and the points keep the first-seen order of the rotated
\* (and possibly reversed) input filament.
C4_OutputClosedWithoutDuplicates ==
    pc = "filtered" =>
        \A g \in Output :
            /\ Len(g) >= 2
            /\ g[1] = g[Len(g)]
            /\ \A i, j \in 1..(Len(g) - 1) : i < j => g[i] # g[j]
            /\ \E f \in Input : \E k \in 1..Len(f) :
                  \/ FirstSeenOrder(Body(g), Rotate(f, k))
                  \/ FirstSeenOrder(Body(g), Flip(Rotate(f, k)))

C4_Witness ==
    /\ pc = "filtered"
    /\ filaments = <<<< <<800, 0, 100>>, <<1000, 0, 100>>, <<1000, 0, 0 - 100>>,
                        <<800, 0, 100>> >>>>
    /\ Len(filtered_filaments[1]) = 4

\* the window of the claim, from the attributes of the object
InWindow(point) ==
    LET tolerance == 2 * Arctan2(mag_len, average_radial_distance)
        phi == Positive(Arctan2(point[2], point[1]))
    IN  \/ phi >= TwoPi - tolerance /\ phi < TwoPi
        \/ phi >= 0 /\ phi <= toroidal_extent + tolerance

\* C5: a filament is retained exactly when one of its points has its
\* normalized toroidal angle in [min_rad, 2 pi) or in [0, max_rad].
C5_RetainedIffPointInWindow ==
    pc = "filtered" =>
        /\ \A f \in Input :
              (\E g \in Output : Range(g) = Range(f))
                  <=> (\E point \in Range(f) : InWindow(point))
        /\ Len(filtered_filaments) =
              Cardinality({i \in 1..Len(filaments) :
                              \E point \in Range(filaments[i]) : InWindow(point)})

C5_Witness ==
    /\ pc = "filtered"
    /\ Len(filaments) = 2
    /\ Len(filtered_filaments) = 1
    /\ \E f \in Input : /\ \E point \in Range(f) : InWindow(point)
                        /\ \E point \in Range(f) : ~InWindow(point)

\* C6: the stored filaments are in non-decreasing order of the toroidal angle
\* of their centre of mass, normalized to [0, 2 pi).
C6_SortedByNormalizedAngle ==
    pc = "filtered" =>
        \A i \in 1..(Len(filtered_filaments) - 1) :
            Positive(Arctan2(Com(filtered_filaments[i])[2],
                             Com(filtered_filaments[i])[1]))
              <= Positive(Arctan2(Com(filtered_filaments[i + 1])[2],
                                  Com(filtered_filaments[i + 1])[1]))

\* two consecutive points whose z values have opposite sign
OppositeSign(p, q) == (p[3] < 0 /\ q[3] > 0) \/ (p[3] > 0 /\ q[3] < 0)

RadiusSquared(p) == p[1] * p[1] + p[2] * p[2]

\* C7: the start point of every output filament is the first point of a
\* z-sign-crossing pair of the input filament, and no such crossing point
\* is farther from the axis.
C7_StartIsOutermostCrossing ==
    pc = "filtered" =>
        \A g \in Output : \E f \in Input :
            /\ Range(f) = Range(g)
            /\ \E i \in 1..(Len(f) - 1) :
                  /\ f[i] = g[1]
                  /\ OppositeSign(f[i], f[i + 1])
                  /\ \A j \in 1..(Len(f) - 1) :
                        OppositeSign(f[j], f[j + 1])
                            => RadiusSquared(f[j]) <= RadiusSquared(f[i])

\* C8: in every output filament the second point is not below the start
\* point.
C8_SecondPointNotBelowStart ==
    pc = "filtered" => \A g \in Output : g[2][3] >= g[1][3]

SquareFile ==
    FileOf(<< << <<10, 0, 0 - 1>>, <<10, 0, 1>>, <<8, 0, 1>>, <<8, 0, 0 - 1>> >> >>)

\* C9: canonicalizing the open square filament completes without error and
\* gives the five points that start at the outboard lower corner, go up and
\* end with a copy of the start.
C9_SquareIsCanonicalized ==
    (coils_file = SquareFile /\ call.op = "_set_filtered_filaments") =>
        /\ raised = None
        /\ filtered_filaments =
              << << <<1000, 0, 0 - 100>>, <<1000, 0, 100>>, <<800, 0, 100>>,
                    <<800, 0, 0 - 100>>, <<1000, 0, 0 - 100>> >> >>

(***************************************************************************)
(* Claim on the parser (properties of SpecParse)                         *)
(***************************************************************************)
\* the filaments the claim describes for the data lines and a sample_mod
ExpectedFilaments(data, mod) ==
    LET ends == {i \in 1..Len(data) : data[i].tok = "end"}
        stop == IF ends = {} THEN Len(data) + 1
                ELSE CHOOSE i \in ends : \A j \in ends : i <= j
        zeros == Ascending({t \in 1..(stop - 1) : data[t].s = 0})
        first(n) == IF n = 1 THEN 1 ELSE zeros[n - 1] + 1
        kept(n) == Ascending({j \in first(n)..(zeros[n] - 1) :
                                 (j - first(n)) % mod = 0} \cup {zeros[n]})
        point(j) == <<data[j].x * 100, data[j].y * 100, data[j].z * 100>>
    IN  [n \in 1..Len(zeros) |-> [r \in 1..Len(kept(n)) |-> point(kept(n)[r])]]

\* C10: for any data records _extract_filaments returns without error and
\* produces, for every zero-current record before the first 'end' line, the
\* records at offsets that are multiples of sample_mod followed by the
\* zero-current record.
C10_OneFilamentPerZeroCurrentRecord ==
    call.op = "_extract_filaments" =>
        /\ raised = None
        /\ filaments = ExpectedFilaments(DataOf(coils_file), sample_mod)

(***************************************************************************)
(* Claim on the sweep path of a coil (property of Spec)                    *)
(***************************************************************************)
\* C11: for every coil built from a closed filament p[0..n] with p[n] = p[0],
\* create_magnet takes p[1] as the next point and p[n-1], the point before
\* the closing duplicate, as the previous point of the tangent at the start;
\* the previous point never has the coordinates of the start p[0].
C11_TangentSpansNeighboursOfStart ==
    pc = "built" =>
        \A i \in 1..Len(magnet_coils) :
            LET p == magnet_coils[i].filament
                last == Len(p)
            IN  p[last] = p[1] =>
                    /\ magnet_coils[i].next_pt = p[2]
                    /\ magnet_coils[i].last_pt = p[last - 1]
                    /\ magnet_coils[i].last_pt # p[1]
                    /\ magnet_coils[i].tang_dir =
                          <<p[2][1] - p[last - 1][1], p[2][2] - p[last - 1][2],
                            p[2][3] - p[last - 1][3]>>

(***************************************************************************)
(* Claim on filaments without a z-crossing (property of Spec)              *)
(***************************************************************************)
\* the filament has a point in the toroidal window
Retained(f) == \E point \in Range(f) : InWindow(point)

\* no two consecutive points of the filament have z values of opposite sign
NoZCrossing(f) == \A k \in 1..(Len(f) - 1) : ~OppositeSign(f[k], f[k + 1])

\* C12: when a retained filament has no z-crossing, _set_filtered_filaments
\* ends with an error: filtered_filaments is never assigned and no magnet
\* coil is created.
C12_NoCrossingAborts ==
    (/\ call.op \in {"_set_filtered_filaments", "create_magnet"}
     /\ \E f \in Input : Retained(f) /\ NoZCrossing(f)) =>
        /\ call.op = "_set_filtered_filaments"
        /\ raised # None
        /\ pc = "aborted"
        /\ "filtered_filaments" \notin attrs
        /\ filtered_filaments = <<>>
        /\ magnet_coils = <<>>

(***************************************************************************)
(* Claim on filaments with equal sort keys (property of Spec)              *)
(***************************************************************************)
\* the positions of the retained filaments in self.filaments, in file order
RetainedIndices == Ascending({i \in 1..Len(filaments) : Retained(filaments[i])})

\* the normalized toroidal angle of the centre of mass of a filament
ComAngle(f) == Positive(Arctan2(Com(f)[2], Com(f)[1]))

\* two retained filaments have the same centre-of-mass angle
RetainedTie ==
    \E i, j \in Range(RetainedIndices) :
        i < j /\ ComAngle(filaments[i]) = ComAngle(filaments[j])

\* every retained filament is one that the canonicalization accepts
RetainedCanonicalize ==
    \A i \in Range(RetainedIndices) : Reorder(filaments[i]).raised = None

\* C13: when retained filaments have equal centre-of-mass angles the sorts
\* of _set_filtered_filaments complete without error and filaments of equal
\* angle keep their relative order of the file.
C13_EqualAnglesSortStably ==
    (/\ call.op = "_set_filtered_filaments"
     /\ RetainedTie
     /\ RetainedCanonicalize) =>
        /\ raised = None
        /\ Len(filtered_filaments) = Len(RetainedIndices)
        /\ \A i, j \in Range(RetainedIndices) :
              (i < j /\ ComAngle(filaments[i]) = ComAngle(filaments[j])) =>
                  \E a, b \in 1..Len(filtered_filaments) :
                      /\ a < b
                      /\ Range(filtered_filaments[a]) = Range(filaments[i])
                      /\ Range(filtered_filaments[b]) = Range(filaments[j])

(***************************************************************************)
(* Claim on the cross_section setter over a sequence of assignments        *)
(* (property of SpecConfig)                                                *)
(***************************************************************************)
\* the Cubit string of an accepted cross-section
ShapeStrOf(cs) ==
    IF cs[1] = "circle" THEN <<"circle", "radius", cs[2]>>
    ELSE <<"rectangle", "width", cs[3], "height", cs[2]>>

\* C14: after any sequence of assignments to cross_section the property
\* holds a well-formed value and shape, shape_str and mag_len are the ones
\* computed from it, so an assignment that raises changes none of them.
C14_DerivedFieldsFollowCrossSection ==
    pc = "ready" =>
        /\ ~Malformed(cross_section)
        /\ shape = cross_section[1]
        /\ shape_str = ShapeStrOf(cross_section)
        /\ mag_len = IF cross_section[1] = "circle" THEN cross_section[2]
                     ELSE Max(cross_section[2], cross_section[3])

====
